---- MODULE Spec2Model ----
(***************************************************************************)
(* Model of the Whisper transcription back end of VRCTalk                  *)
(* (src-tauri/src/whisper.rs): the model cache directory, the download     *)
(* command, the completeness query and the transcription command with its  *)
(* single shared model slot guarded by one mutex.                          *)
(*                                                                         *)
(* Granularity: one action per stretch of code between two points where    *)
(* the command can be suspended or blocked (an .await on the network, the  *)
(* mutex, the blocking engine calls).  File-system calls are atomic.       *)
(***************************************************************************)
EXTENDS Integers, Sequences, FiniteSets, TLC

(***************************************************************************)
(* Bounds of the model.                                                    *)
(***************************************************************************)
MaxTranscribes == 3    \* whisper_transcribe calls in a behaviour
MaxDownloads == 2      \* whisper_download_model calls in a behaviour
MaxQueries == 1        \* whisper_is_model_downloaded calls in a behaviour
MaxChunks == 2         \* chunks in one HTTP response body
ChunkBytes == 5000000  \* bytes carried by one chunk of the body stream
MaxRestarts == 1       \* times the application is closed and started again
MaxSegments == 3       \* segments the engine reports for one clip
MaxFrames == 2         \* whole frames in a stereo WAV input
MaxRamp == 4000        \* samples in the longest mono WAV input
MaxListenerCalls == 3  \* calls of start_vrc_listener
MaxTagLen == 3         \* characters in the longest made-up language tag
MaxBuffer == 16000     \* samples in the longest buffer given to the gate
MaxAmplitude == 300    \* loudest sample of such a buffer, in thousandths

(***************************************************************************)
(* Program constants.                                                      *)
(***************************************************************************)
MaxAudioBytes == 20000000
MinSamples == 8000
RmsThreshold == 20
PeakThreshold == 100
MinChanges == 3
MinBinBytes == 10000000
HeaderBytes == 44
TargetRate == 16000
ChangeThreshold == 15
Windows == 10

\* the concurrent invocations of whisper_transcribe
Callers == {"c1", "c2"}

\* static MODEL_CONFIGS: (id, repo_id, files)
MODEL_CONFIGS ==
  << <<"tiny",   "ggerganov/whisper.cpp", <<"ggml-tiny.bin">> >>,
     <<"base",   "ggerganov/whisper.cpp", <<"ggml-base.bin">> >>,
     <<"small",  "ggerganov/whisper.cpp", <<"ggml-small.bin">> >>,
     <<"medium", "ggerganov/whisper.cpp", <<"ggml-medium.bin">> >>,
     <<"large",  "ggerganov/whisper.cpp", <<"ggml-large-v3.bin">> >> >>

\* the first entry of the catalog when no entry has that id
FindOrFirst(model) ==
  LET hits == {i \in 1..Len(MODEL_CONFIGS) : MODEL_CONFIGS[i][1] = model}
  IN  MODEL_CONFIGS[IF hits = {} THEN 1
                    ELSE CHOOSE i \in hits : \A j \in hits : i <= j]

\* MODEL_CONFIGS.iter().find(|(id, _, _)| *id == model): the first entry
\* with that id, or <<>> for None.
FindConfig(model) ==
  LET hits == {i \in 1..Len(MODEL_CONFIGS) : MODEL_CONFIGS[i][1] = model}
  IN  IF hits = {} THEN <<>>
      ELSE MODEL_CONFIGS[CHOOSE i \in hits : \A j \in hits : i <= j]

InCatalog(model) == FindConfig(model) # <<>>

\* file.ends_with(".bin") for the file names that can occur in the cache
EndsWithBin(file) ==
  file \in {"ggml-tiny.bin", "ggml-base.bin", "ggml-small.bin",
            "ggml-medium.bin", "ggml-large.bin", "ggml-large-v3.bin",
            "ggml-bogus.bin"}

\* format!("ggml-{}.bin", model_name) in whisper_transcribe
ModelFileName(model_name) == "ggml-" \o model_name \o ".bin"

(***************************************************************************)
(* Inputs.                                                                 *)
(***************************************************************************)
\* model identifiers the commands are called with ("bogus" is not in the
\* catalog)
ModelInputs == {"tiny", "base", "large", "bogus"}

\* A clip of raw 16-bit PCM: its byte length and the statistics of its
\* samples that detect_speech_activity computes (rms and peak in
\* thousandths of full scale, changes = adjacent windows whose RMS differ
\* by more than 0.015).
Clip(n, r, p, c) == [nbytes |-> n, rms |-> r, peak |-> p, changes |-> c]

NoClip == Clip(0, 0, 0, 0)
OddClip == Clip(32001, 50, 300, 5)
HugeClip == Clip(20000002, 50, 300, 5)
ShortClip == Clip(1000, 500, 900, 9)
SilentClip == Clip(32000, 0, 0, 0)
NoiseClip == Clip(32000, 50, 300, 2)
SpeechClip == Clip(32000, 50, 300, 5)

AudioInputs ==
  {NoClip, OddClip, HugeClip, ShortClip, SilentClip, NoiseClip, SpeechClip}

\* fn validate_audio_data
validate_audio_data(audio) ==
  IF audio.nbytes = 0 THEN "Audio data is empty"
  ELSE IF audio.nbytes > MaxAudioBytes THEN "Audio data too large (>20MB)"
  ELSE "ok"

\* raw PCM taken two bytes at a time whatever its length
AcceptOddLength(audio) == audio.nbytes \div 2

\* fn process_audio_for_whisper, raw PCM branch: the number of samples, or
\* -1 for the odd-length error
process_audio_for_whisper(audio) ==
  IF audio.nbytes % 2 # 0 THEN -1 ELSE audio.nbytes \div 2

\* the gate without its minimum duration
GateWithoutMinSamples(len, audio) ==
  IF len = 0 THEN FALSE
  ELSE audio.rms > RmsThreshold /\ audio.peak > PeakThreshold
         /\ audio.changes >= MinChanges

\* fn detect_speech_activity, on the sample count and the statistics
detect_speech_activity(len, audio) ==
  IF len = 0 THEN FALSE
  ELSE IF len < MinSamples THEN FALSE
  ELSE LET has_energy == audio.rms > RmsThreshold
           has_peaks == audio.peak > PeakThreshold
           has_variation == audio.changes >= MinChanges
       IN  has_energy /\ has_peaks /\ has_variation

\* the gate's verdict ignored: every valid clip goes on to the model store
GateIgnored(audio) ==
  IF validate_audio_data(audio) # "ok" THEN "err_audio"
  ELSE IF process_audio_for_whisper(audio) = -1 THEN "err_audio"
  ELSE "speech"

\* whisper_transcribe up to the speech gate (validate, normalize, gate), in
\* the order of the code: "err_audio", "silent" (return "") or "speech"
Prepare(audio) ==
  IF validate_audio_data(audio) # "ok" THEN "err_audio"
  ELSE IF process_audio_for_whisper(audio) = -1 THEN "err_audio"
  ELSE IF ~detect_speech_activity(process_audio_for_whisper(audio), audio)
       THEN "silent"
  ELSE "speech"

(***************************************************************************)
(* The statistics of a buffer.  A buffer has len samples: Windows          *)
(* stretches of len / 10 samples each, and after them the len % 10 samples *)
(* that are left.  Within stretch k every sample has the magnitude amp[k], *)
(* and every sample left over has the magnitude tail, in thousandths of    *)
(* full scale.                                                             *)
(***************************************************************************)
Buffer(len, amp, tail) == [len |-> len, amp |-> amp, tail |-> tail]

\* let window_size = audio_samples.len() / 10
WindowSize(buffer) == buffer.len \div Windows

\* the samples of stretch k
StretchLen(buffer, k) == WindowSize(buffer)

\* the samples after the last stretch
TailLen(buffer) == buffer.len - Windows * WindowSize(buffer)

\* audio_samples.iter().map(|&x| x * x).sum(), in millionths
RECURSIVE SumSquares(_, _)
SumSquares(buffer, k) ==
  IF k = 0 THEN buffer.tail * buffer.tail * TailLen(buffer)
  ELSE buffer.amp[k] * buffer.amp[k] * StretchLen(buffer, k)
         + SumSquares(buffer, k - 1)

\* (sum_squares / len).sqrt() in thousandths, rounded up to a whole number:
\* it exceeds a whole threshold exactly when the root does
Rms(buffer) ==
  CHOOSE r \in 0..MaxAmplitude :
    /\ r * r * buffer.len >= SumSquares(buffer, Windows)
    /\ r = 0 \/ (r - 1) * (r - 1) * buffer.len < SumSquares(buffer, Windows)

\* .map(|&x| x.abs()).fold(0.0f32, f32::max) over the samples there are
Peak(buffer) ==
  LET heard == {buffer.amp[k] : k \in {j \in 1..Windows :
                                         StretchLen(buffer, j) > 0}}
                 \cup (IF TailLen(buffer) > 0 THEN {buffer.tail} ELSE {})
  IN  CHOOSE p \in heard : \A a \in heard : a <= p

Abs(x) == IF x < 0 THEN -x ELSE x

\* the comparison for i = 8: next_end is audio_samples.len(), so the next
\* segment is stretch 10 with the samples left over, and its rms is the
\* root of sum / count.  |segment_rms - root| > 0.015 without the root:
LastPairDiffers(buffer) ==
  LET count == StretchLen(buffer, Windows) + TailLen(buffer)
      sum == buffer.amp[Windows] * buffer.amp[Windows]
               * StretchLen(buffer, Windows)
             + buffer.tail * buffer.tail * TailLen(buffer)
      above == buffer.amp[Windows - 1] + ChangeThreshold
      below == buffer.amp[Windows - 1] - ChangeThreshold
  IN  \/ sum > above * above * count
      \/ below > 0 /\ sum < below * below * count

\* the loop over i in 0..9: the rms of a stretch of constant magnitude is
\* that magnitude
AmplitudeChanges(buffer) ==
  IF WindowSize(buffer) > 0
  THEN Cardinality({i \in 1..(Windows - 2) :
                      Abs(buffer.amp[i] - buffer.amp[i + 1]) > ChangeThreshold})
         + (IF LastPairDiffers(buffer) THEN 1 ELSE 0)
  ELSE 0

\* fn detect_speech_activity on a buffer
DetectSpeechActivity(buffer) ==
  detect_speech_activity(buffer.len,
    IF buffer.len = 0 THEN Clip(0, 0, 0, 0)
    ELSE Clip(2 * buffer.len, Rms(buffer), Peak(buffer),
              AmplitudeChanges(buffer)))

\* buffers: silence and full loudness in every arrangement over the
\* stretches, and steady buffers of three loudnesses, with silent or loud
\* samples left over, in lengths around the minimum duration
Flat(a) == [k \in 1..Windows |-> a]

BufferAmplitudes ==
  [1..Windows -> {0, MaxAmplitude}] \cup {Flat(10), Flat(50), Flat(110)}

BufferLengths == {0, 1, 5, 7999, 8000, 8005, MaxBuffer}

BufferInputs ==
  {Buffer(len, amp, tail) :
     len \in BufferLengths, amp \in BufferAmplitudes,
     tail \in {0, MaxAmplitude}}

(***************************************************************************)
(* f32 arithmetic as the resampler uses it.  A positive f32 is m * 2^e     *)
(* with 2^23 <= m < 2^24; zero has m = 0.  The results of / and * are      *)
(* rounded to the nearest f32, ties to the even mantissa.  Every           *)
(* intermediate value of these definitions stays below 2^31.               *)
(***************************************************************************)
RECURSIVE Pow2(_)
Pow2(n) == IF n = 0 THEN 1 ELSE 2 * Pow2(n - 1)

F32(m, e) == [m |-> m, e |-> e]

RECURSIVE Normalize(_, _)
\* the mantissa shifted up to 24 bits
Normalize(m, e) ==
  IF m = 0 THEN F32(0, 0)
  ELSE IF m < Pow2(23) THEN Normalize(2 * m, e - 1)
  ELSE F32(m, e)

\* "n as f32" for 0 <= n < 2^24: exact
FromInt(n) == Normalize(n, 0)

\* round to nearest, ties to even; a mantissa that reaches 2^24 is
\* renormalized
RoundNearestEven(q, e, rest, half) ==
  LET up == rest > half \/ (rest = half /\ q % 2 = 1)
  IN  IF ~up THEN F32(q, e)
      ELSE IF q + 1 = Pow2(24) THEN F32(Pow2(23), e + 1)
      ELSE F32(q + 1, e)

RECURSIVE LongDiv(_, _, _, _)
\* bits more bits of the quotient of rem / d (rem < d < 2^24): <<q, rem>>
LongDiv(rem, d, bits, q) ==
  IF bits = 0 THEN <<q, rem>>
  ELSE IF 2 * rem >= d THEN LongDiv(2 * rem - d, d, bits - 1, 2 * q + 1)
  ELSE LongDiv(2 * rem, d, bits - 1, 2 * q)

\* a / b on f32, b > 0
FDiv(a, b) ==
  IF a.m = 0 THEN F32(0, 0)
  ELSE LET first == a.m \div b.m
           bits == IF first = 1 THEN 23 ELSE 24
           qr == LongDiv(a.m % b.m, b.m, bits, first)
       IN  RoundNearestEven(qr[1], a.e - b.e - bits, 2 * qr[2], b.m)

\* a * b on f32: the 48-bit product of the mantissas in limbs of 12 bits
FMul(a, b) ==
  IF a.m = 0 \/ b.m = 0 THEN F32(0, 0)
  ELSE LET ah == a.m \div 4096
           al == a.m % 4096
           bh == b.m \div 4096
           bl == b.m % 4096
           lo == al * bl
           mid == ah * bl + al * bh + lo \div 4096
           k0 == lo % 4096
           k1 == mid % 4096
           k2 == ah * bh + mid \div 4096
       IN  IF k2 >= Pow2(23)
           THEN RoundNearestEven(k2, a.e + b.e + 24, k1 * 4096 + k0,
                                 Pow2(23))
           ELSE RoundNearestEven(2 * k2 + k1 \div 2048, a.e + b.e + 23,
                                 (k1 % 2048) * 4096 + k0, Pow2(22))

\* "x as usize" for x >= 0: the integer part
ToUsize(x) ==
  IF x.m = 0 THEN 0
  ELSE IF x.e >= 0 THEN x.m * Pow2(x.e)
  ELSE IF -x.e >= 24 THEN 0
  ELSE x.m \div Pow2(-x.e)

(***************************************************************************)
(* process_audio_for_whisper, WAV branch.  A normalized sample is the      *)
(* integer v that stands for the f32 v / 32768.0 (exact for a 16-bit v).   *)
(***************************************************************************)
\* A 16-bit WAV container: channels and sample rate of its fmt chunk, the
\* samples its data chunk declares (interleaved), and how many of them the
\* bytes end before.
Wav(channels, sample_rate, data, missing) ==
  [channels |-> channels, sample_rate |-> sample_rate, data |-> data,
   missing |-> missing]

\* the length of the container in bytes
WavBytes(w) == HeaderBytes + 2 * (Len(w.data) - w.missing)

\* WavReader::new(cursor) is Ok: the reader refuses a data chunk whose
\* sample count is not a multiple of the channel count
WavReaderNew(w) == Len(w.data) % w.channels = 0

\* reader.samples::<i16>().collect(): an error when the bytes end before
\* the declared samples do
ReadSamples(w) ==
  IF w.missing > 0 THEN [ok |-> FALSE, samples |-> <<>>]
  ELSE [ok |-> TRUE, samples |-> w.data]

\* the average rounded down
FloorAverage(l, r) == (l + r) \div 2

\* (chunk[0] as i32 + chunk[1] as i32) / 2: i32 division truncates toward
\* zero
Average(l, r) ==
  IF l + r >= 0 THEN (l + r) \div 2 ELSE -((-(l + r)) \div 2)

\* samples.chunks(2).map(..).collect(): the last chunk of an odd number of
\* samples has one element, and chunk[1] panics on it
Downmix(samples) ==
  IF Len(samples) % 2 = 1 THEN [panic |-> TRUE, samples |-> <<>>]
  ELSE [panic |-> FALSE,
        samples |-> [k \in 1..(Len(samples) \div 2) |->
                      Average(samples[2 * k - 1], samples[2 * k])]]

\* let ratio = spec.sample_rate as f32 / 16000.0
Ratio(sample_rate) == FDiv(FromInt(sample_rate), FromInt(TargetRate))

\* let new_length = (float_samples.len() as f32 / ratio) as usize
NewLength(len, sample_rate) ==
  ToUsize(FDiv(FromInt(len), Ratio(sample_rate)))

\* let src_index = (i as f32 * ratio) as usize
SrcIndex(i, sample_rate) == ToUsize(FMul(FromInt(i), Ratio(sample_rate)))

\* the source index of every sample the loop pushes, in order
ResampleIndexes(len, sample_rate) ==
  LET InBounds(src_index) == src_index < len
  IN  SelectSeq([i \in 1..NewLength(len, sample_rate) |->
                  SrcIndex(i - 1, sample_rate)], InBounds)

\* "Resample to 16kHz if needed"
Resample(float_samples, sample_rate) ==
  LET picked == ResampleIndexes(Len(float_samples), sample_rate)
  IN  [j \in 1..Len(picked) |-> float_samples[picked[j] + 1]]

\* fn process_audio_for_whisper on a WAV container: kind is "ok" with the
\* samples, "err", "panic", or "pcm" with the sample count when the reader
\* refuses the container and its bytes are taken for raw PCM
ProcessWav(w) ==
  IF ~WavReaderNew(w)
  THEN LET n == process_audio_for_whisper(Clip(WavBytes(w), 0, 0, 0))
       IN  [kind |-> IF n = -1 THEN "err" ELSE "pcm", samples |-> <<>>,
            len |-> n]
  ELSE IF ~ReadSamples(w).ok
  THEN [kind |-> "err", samples |-> <<>>, len |-> -1]
  ELSE LET mono_samples == IF w.channels = 2
                           THEN Downmix(ReadSamples(w).samples)
                           ELSE [panic |-> FALSE,
                                 samples |-> ReadSamples(w).samples]
       IN  IF mono_samples.panic
           THEN [kind |-> "panic", samples |-> <<>>, len |-> -1]
           ELSE LET float_samples ==
                      IF w.sample_rate # TargetRate
                      THEN Resample(mono_samples.samples, w.sample_rate)
                      ELSE mono_samples.samples
                IN  [kind |-> "ok", samples |-> float_samples,
                     len |-> Len(float_samples)]

\* WAV inputs: every stereo container of up to MaxFrames frames, with or
\* without a sample of a further frame, complete or cut short by one
\* sample, at the target rate and at three times the target rate
SampleValues == {-32768, -3, 1, 32767}

StereoInputs ==
  {Wav(2, rate, data, missing) :
     rate \in {TargetRate, 3 * TargetRate},
     data \in UNION {[1..n -> SampleValues] : n \in 0..(2 * MaxFrames + 1)},
     missing \in {0, 1}}

\* ... and mono containers whose sample number k has the value k
Ramp(n) == [k \in 1..n |-> k - 1]

MonoRates == {8000, 11025, 16000, 22050, 32000, 44100, 48000}

MonoLengths == {0, 1, 2, 441, 1000, 3969, 3972, MaxRamp}

MonoInputs ==
  {Wav(1, rate, Ramp(n), 0) : rate \in MonoRates, n \in MonoLengths}

\* Audio bytes by what the reader looks at: the first four bytes, whether
\* what follows them is a well-formed WAVE form (fmt chunk, data chunk of
\* mono 16-bit samples at 16,000 Hz), and the length in bytes.
AudioBytes(tag, wave, nbytes) == [tag |-> tag, wave |-> wave, nbytes |-> nbytes]

\* WavReader::new(cursor) is Ok: the reader wants the RIFF tag and a
\* well-formed form after it
ReaderAccepts(a) == a.tag = "RIFF" /\ a.wave

\* fn process_audio_for_whisper on such bytes: "match WavReader::new" takes
\* the WAV branch when the reader accepts them and the raw PCM branch on
\* every error of the reader
ProcessBytes(a) ==
  IF ReaderAccepts(a)
  THEN LET out == ProcessWav(Wav(1, TargetRate,
                                 Ramp((a.nbytes - HeaderBytes) \div 2), 0))
       IN  [kind |-> IF out.kind = "ok" THEN "wav" ELSE out.kind,
            len |-> out.len]
  ELSE LET n == process_audio_for_whisper(Clip(a.nbytes, 0, 0, 0))
       IN  [kind |-> IF n = -1 THEN "err" ELSE "pcm", len |-> n]

Tags == {"RIFF", "RIFX", "FORM", "data"}

ByteLengths == {4, 5, 43, 44, 45, 46, 100, 101, 1000, 2044}

ByteInputs ==
  {AudioBytes(tag, wave, nbytes) :
     tag \in Tags,
     wave \in BOOLEAN,
     nbytes \in ByteLengths} \
  {a \in [tag : Tags, wave : {TRUE}, nbytes : ByteLengths] :
     a.nbytes < HeaderBytes \/ a.nbytes % 2 = 1}

(***************************************************************************)
(* run_inference_on_context: the language hint, the engine run and the     *)
(* cleaning of the transcript.  Texts are strings.                         *)
(***************************************************************************)
\* The language argument is UTF-8 text.  In the inputs of the model "~"
\* stands for a character encoded in two bytes and "^" for one encoded in
\* three bytes; every other character is ASCII.
Utf8Len(ch) == IF ch = "^" THEN 3 ELSE IF ch = "~" THEN 2 ELSE 1

RECURSIVE ByteLen(_)
\* str::len(): the length in bytes
ByteLen(str) ==
  IF str = "" THEN 0 ELSE Utf8Len(Head(str)) + ByteLen(Tail(str))

RECURSIVE CharsInBytes(_, _)
\* the number of leading characters that fill exactly n bytes, or -1 when
\* byte offset n is not a character boundary
CharsInBytes(str, n) ==
  IF n = 0 THEN 0
  ELSE IF str = "" \/ Utf8Len(Head(str)) > n THEN -1
  ELSE LET rest == CharsInBytes(Tail(str), n - Utf8Len(Head(str)))
       IN  IF rest = -1 THEN -1 ELSE rest + 1

\* the arms of "match language" that name a language
LANGUAGE_CODES ==
  << <<"en-US", "en">>, <<"ja-JP", "ja">>, <<"ko-KR", "ko">>,
     <<"id-ID", "id">>, <<"zh-CN", "zh">>, <<"es-ES", "es">>,
     <<"fr-FR", "fr">>, <<"de-DE", "de">>, <<"it-IT", "it">>,
     <<"pt-PT", "pt">>, <<"ru-RU", "ru">>, <<"nl-NL", "nl">>,
     <<"pl-PL", "pl">>, <<"tr-TR", "tr">>, <<"vi-VN", "vi">>,
     <<"th-TH", "th">> >>

\* &lang[..2]: the first two bytes, a panic when byte 2 is inside a
\* character
SliceTwoBytes(language) ==
  IF CharsInBytes(language, 2) = -1 THEN "panic"
  ELSE SubSeq(language, 1, CharsInBytes(language, 2))

\* let whisper_lang = match language { .. }
whisper_lang(language) ==
  LET arms == {i \in 1..Len(LANGUAGE_CODES) :
                 language \in {LANGUAGE_CODES[i][1], LANGUAGE_CODES[i][2]}}
  IN  IF arms # {} THEN LANGUAGE_CODES[CHOOSE i \in arms : TRUE][2]
      ELSE IF ByteLen(language) >= 2 THEN SliceTwoBytes(language)
      ELSE "en"

\* language arguments of the model: a listed tag, a listed code, an unlisted
\* tag, one letter, and a tag whose second byte is inside a character
LanguageInputs == {"en-US", "ja", "sv-SE", "x", "^^"}

\* every tag of up to MaxTagLen characters over two letters, the hyphen, a
\* two-byte and a three-byte character, and the tags the match names
TagAlphabet == {"e", "n", "-", "~", "^"}

RECURSIVE TagsOfLen(_)
TagsOfLen(n) ==
  IF n = 0 THEN {""}
  ELSE {ch \o rest : ch \in TagAlphabet, rest \in TagsOfLen(n - 1)}

TagInputs ==
  UNION {TagsOfLen(n) : n \in 0..MaxTagLen}
    \cup {LANGUAGE_CODES[i][1] : i \in 1..Len(LANGUAGE_CODES)}
    \cup LanguageInputs

\* str::trim(): white space is removed from both ends
WhiteSpace == {" ", "\n", "\t"}

RECURSIVE TrimStart(_)
TrimStart(str) ==
  IF str # "" /\ Head(str) \in WhiteSpace THEN TrimStart(Tail(str)) ELSE str

RECURSIVE TrimEnd(_)
TrimEnd(str) ==
  IF str # "" /\ SubSeq(str, Len(str), Len(str)) \in WhiteSpace
  THEN TrimEnd(SubSeq(str, 1, Len(str) - 1))
  ELSE str

Trim(str) == TrimEnd(TrimStart(str))

RECURSIVE Replace(_, _)
\* str::replace(pat, ""): the occurrences of pat found from left to right,
\* none overlapping another, are removed
Replace(str, pat) ==
  IF Len(str) < Len(pat) THEN str
  ELSE IF SubSeq(str, 1, Len(pat)) = pat
  THEN Replace(SubSeq(str, Len(pat) + 1, Len(str)), pat)
  ELSE Head(str) \o Replace(Tail(str), pat)

\* the patterns removed from the transcript, in the order of the code
ARTIFACTS ==
  << "[BLANK_AUDIO]", "(BLANK_AUDIO)", "[MUSIC]", "[NOISE]", "(music)",
     "(inaudible)", "..." >>

RECURSIVE ReplaceFrom(_, _)
\* the chain of .replace calls from pattern number i on
ReplaceFrom(str, i) ==
  IF i > Len(ARTIFACTS) THEN str
  ELSE ReplaceFrom(Replace(str, ARTIFACTS[i]), i + 1)

\* "Clean up the transcription"
Clean(transcription) == Trim(ReplaceFrom(Trim(transcription), 1))

\* One engine run on a clip: whether create_state, full and
\* full_n_segments succeed, and what full_get_segment_text gives for each
\* segment (a text, or an error).
Segment(str) == [ok |-> TRUE, text |-> str]

Unreadable == [ok |-> FALSE, text |-> ""]

SegmentTexts == {"Hello ", "[BLANK_AUDIO]", " world...", "(inaud...", "ible)"}

SegmentInputs == {Segment(str) : str \in SegmentTexts} \cup {Unreadable}

Run(state, full, count, segs) ==
  [state |-> state, full |-> full, count |-> count, segs |-> segs]

NoStateRun == Run(FALSE, FALSE, FALSE, <<>>)
FailedRun == Run(TRUE, FALSE, FALSE, <<>>)
NoCountRun == Run(TRUE, TRUE, FALSE, <<>>)
HelloRun == Run(TRUE, TRUE, TRUE, <<Segment("Hello ")>>)

EngineRuns ==
  {NoStateRun, FailedRun, NoCountRun}
  \cup {Run(TRUE, TRUE, TRUE, segs) :
          segs \in UNION {[1..n -> SegmentInputs] : n \in 0..MaxSegments}}

RECURSIVE Collect(_, _)
\* "for i in 0..num_segments { if let Ok(segment) = .. { push_str } }",
\* from segment i on
Collect(segs, i) ==
  IF i > Len(segs) THEN ""
  ELSE (IF segs[i].ok THEN segs[i].text ELSE "") \o Collect(segs, i + 1)

\* fn run_inference_on_context: the result of the call, or the panic of the
\* slice in the language match
run_inference_on_context(run, language) ==
  IF whisper_lang(language) = "panic" THEN [res |-> "panic", text |-> ""]
  ELSE IF ~run.state THEN [res |-> "err_state", text |-> ""]
  ELSE IF ~run.full THEN [res |-> "err_infer", text |-> ""]
  ELSE IF ~run.count THEN [res |-> "err_segments", text |-> ""]
  ELSE [res |-> "ok_text", text |-> Clean(Collect(run.segs, 1))]

(***************************************************************************)
(* The cache on disk.                                                      *)
(***************************************************************************)
\* the files a model directory can hold: those the catalog requires and the
\* one whisper_transcribe looks for
FileNames(m) ==
  (IF InCatalog(m)
   THEN {FindConfig(m)[3][i] : i \in 1..Len(FindConfig(m)[3])}
   ELSE {})
  \cup {ModelFileName(m)}

Paths == UNION { {<<m, f>> : f \in FileNames(m)} : m \in ModelInputs }

\* a file: its length and whether it holds the whole body it was
\* downloaded from; size -1 is "no such file"
Absent == [size |-> -1, whole |-> FALSE]

VARIABLES
  appData,     \* the app data directory: "absent", "file" or "dir"
  modelsDir,   \* <app data>/whisper_models: "absent", "file" or "dir"
  dirs,        \* identifiers that have a directory under whisper_models
  files,       \* Paths -> file
  slot,        \* WhisperAppState.state: the set of (context, id) entries
  lock,        \* the mutex around the slot: "free", else the holder
  tr,          \* per caller: the whisper_transcribe invocation (with what
               \* it did to the cache and who held the mutex at its entry)
  lockLog,     \* history: what each lock holder asked for and did
  dl,          \* the whisper_download_model invocation
  prevDl,      \* history: the previous finished download call
  q,           \* the last whisper_is_model_downloaded call and its result
  calls,       \* history: calls and restarts so far
  poisoned,    \* the mutex is poisoned: a thread panicked holding it
  ls,          \* the last whisper_get_downloaded_models call and its result
  pf,          \* a call of one of the audio functions: input and result
  ln           \* LISTENER_STARTED, the listener thread and the calls of
               \* start_vrc_listener

vars == <<appData, modelsDir, dirs, files, slot, lock, tr, lockLog, dl,
          prevDl, q, calls, poisoned, ls, pf, ln>>

disk == <<appData, modelsDir, dirs, files>>

Exists(fs, p) == fs[p].size >= 0

IdleCall == [pc |-> "idle", audio |-> NoClip, model |-> "", file |-> <<>>,
             res |-> "none", touched |-> FALSE, sawLock |-> "free",
             language |-> "", run |-> NoStateRun, text |-> ""]

IdleDownload == [pc |-> "idle", model |-> "", idx |-> 0, total |-> 0,
                 downloaded |-> 0, body |-> 0, res |-> "none",
                 failed |-> "", started |-> 0, events |-> 0,
                 reported |-> -1]

NoDownload == [model |-> "", res |-> "none"]

NoQuery == [model |-> "", res |-> "none"]

NoList == [res |-> "none", models |-> <<>>]

NoCall == [op |-> "none", input |-> <<>>, out |-> <<>>]

\* before the first call of start_vrc_listener: the flag is false and there
\* is no listener thread
NoListenerCall == [pc |-> "idle", flipped |-> FALSE, saw |-> "none",
                   res |-> "none"]

IdleListener == [started |-> FALSE, flips |-> 0, spawned |-> 0,
                 thread |-> "none", count |-> 0,
                 call |-> [c \in Callers |-> NoListenerCall]]

\* The process starts with an empty slot; the cache does not exist yet, or
\* a plain file sits where one of the two directories is expected.
Init ==
  /\ \E kinds \in { <<"absent", "absent">>, <<"file", "absent">>,
                     <<"dir", "absent">>, <<"dir", "file">>,
                     <<"dir", "dir">> } :
       appData = kinds[1] /\ modelsDir = kinds[2]
  /\ dirs = {}
  /\ files = [p \in Paths |-> Absent]
  /\ slot = {}
  /\ lock = "free"
  /\ tr = [t \in Callers |-> IdleCall]
  /\ lockLog = <<>>
  /\ dl = IdleDownload
  /\ prevDl = NoDownload
  /\ q = NoQuery
  /\ calls = [transcribe |-> 0, download |-> 0, query |-> 0, restart |-> 0]
  /\ poisoned = FALSE
  /\ ls = NoList
  /\ pf = NoCall
  /\ ln = IdleListener

\* fn get_models_dir: afterwards both directories exist (a plain file in
\* the way is removed first).  Errors of the file system calls themselves
\* are not modelled.
get_models_dir ==
  /\ appData' = "dir"
  /\ modelsDir' = "dir"


(***************************************************************************)
(* whisper_transcribe                                                      *)
(***************************************************************************)
\* a lock() that does not wait for the holder
LockIgnored(l) == TRUE

\* state_arc.lock() returns only while no other thread holds the mutex
CanLock(l) == l = "free"

\* *guard = Some((ctx, model)) overwrites whatever the slot held
KeepOldEntry(s, e) == s \cup {e}

ReplaceSlot(s, e) == {e}

\* needs_reload: None => true; Some((_, cached)) => cached != model
ReloadOnlyWhenEmpty(s, model) == s = {}

NeedsReload(s, model) == s = {} \/ \E e \in s : e.id # model

\* WhisperContext::new(path): the engine cannot read a missing or empty
\* file; whether it accepts any other file is the engine's decision.
EngineLoad(fs, p) ==
  IF ~Exists(fs, p) \/ fs[p].size = 0 THEN {FALSE} ELSE {TRUE, FALSE}

\* whisper_transcribe from its entry to the spawn of the blocking task:
\* validate, normalize, gate, get_model_path, model_file.exists()
TBegin(t, audio, model, language) ==
  /\ tr[t].pc \in {"idle", "done"}
  /\ calls.transcribe < MaxTranscribes
  /\ calls' = [calls EXCEPT !.transcribe = @ + 1]
  /\ LET call == [IdleCall EXCEPT !.audio = audio, !.model = model,
                                  !.language = language, !.sawLock = lock]
         model_file == <<model, ModelFileName(model)>>
     IN  IF Prepare(audio) = "err_audio"
         THEN /\ tr' = [tr EXCEPT ![t] =
                         [call EXCEPT !.pc = "done", !.res = "err_audio"]]
              /\ UNCHANGED disk
         ELSE IF Prepare(audio) = "silent"
         THEN /\ tr' = [tr EXCEPT ![t] =
                         [call EXCEPT !.pc = "done", !.res = "ok_empty"]]
              /\ UNCHANGED disk
         ELSE /\ get_models_dir
              /\ UNCHANGED <<dirs, files>>
              /\ IF ~Exists(files, model_file)
                 THEN tr' = [tr EXCEPT ![t] =
                         [call EXCEPT !.pc = "done", !.res = "err_missing",
                                      !.touched = TRUE]]
                 ELSE tr' = [tr EXCEPT ![t] =
                         [call EXCEPT !.pc = "wait", !.file = model_file,
                                      !.touched = TRUE]]
  /\ UNCHANGED <<slot, lock, lockLog, dl, prevDl, q, poisoned, ls, pf, ln>>

\* the blocking task takes the mutex and decides whether to reload; on a
\* poisoned mutex lock() is an error and the task returns at once
TLock(t) ==
  /\ tr[t].pc = "wait"
  /\ CanLock(lock)
  /\ IF poisoned
     THEN /\ tr' = [tr EXCEPT ![t].pc = "done", ![t].res = "err_poisoned"]
          /\ UNCHANGED <<lock, lockLog>>
     ELSE /\ lock' = t
          /\ LET needs_reload == NeedsReload(slot, tr[t].model)
             IN  /\ tr' = [tr EXCEPT ![t].pc =
                             IF needs_reload THEN "load" ELSE "infer"]
                 /\ lockLog' = Append(lockLog,
                                 [model |-> tr[t].model,
                                  before |-> {e.id : e \in slot},
                                  attempted |-> needs_reload,
                                  ok |-> IF needs_reload THEN "pending"
                                         ELSE "na"])
  /\ UNCHANGED <<disk, slot, dl, prevDl, q, calls, poisoned, ls, pf, ln>>

\* WhisperContext::new under the lock; an error returns from the task and
\* drops the guard
TLoad(t) ==
  /\ tr[t].pc = "load"
  /\ \E ok \in EngineLoad(files, tr[t].file) :
       IF ok
       THEN /\ slot' = ReplaceSlot(slot, [ctx |-> tr[t].file,
                                          id |-> tr[t].model])
            /\ tr' = [tr EXCEPT ![t].pc = "infer"]
            /\ lockLog' = [lockLog EXCEPT ![Len(lockLog)].ok = "yes"]
            /\ UNCHANGED lock
       ELSE /\ tr' = [tr EXCEPT ![t].pc = "done", ![t].res = "err_load"]
            /\ lockLog' = [lockLog EXCEPT ![Len(lockLog)].ok = "no"]
            /\ lock' = "free"
            /\ UNCHANGED slot
  /\ UNCHANGED <<disk, dl, prevDl, q, calls, poisoned, ls, pf, ln>>

\* run_inference_on_context under the lock, then the guard is dropped.  A
\* panic of the task unwinds through the guard, which poisons the mutex,
\* and reaches the caller as a join error.
TInfer(t, run) ==
  /\ tr[t].pc = "infer"
  /\ LET out == IF slot = {} THEN [res |-> "err_no_context", text |-> ""]
                ELSE run_inference_on_context(run, tr[t].language)
     IN  /\ tr' = [tr EXCEPT ![t].pc = "done",
                             ![t].run = run,
                             ![t].res = IF out.res = "panic" THEN "err_join"
                                        ELSE out.res,
                             ![t].text = out.text]
         /\ poisoned' = (poisoned \/ out.res = "panic")
  /\ lock' = "free"
  /\ UNCHANGED <<disk, slot, lockLog, dl, prevDl, q, calls, ls, pf, ln>>


(***************************************************************************)
(* whisper_download_model                                                  *)
(***************************************************************************)
\* a failed download that leaves the file where it is
KeepPartial(fs, p) == fs

\* "Remove partial file if it exists"
RemovePartial(fs, p) ==
  IF Exists(fs, p) THEN [fs EXCEPT ![p] = Absent] ELSE fs

\* "Skip if file already exists and is not empty"
SkipFile(fs, p) ==
  IF Exists(fs, p) THEN fs[p].size > 0 ELSE FALSE

\* the Err arm of the match on download_file_from_huggingface
DownloadFailed(p) ==
  /\ files' = RemovePartial(files, p)
  /\ dl' = [dl EXCEPT !.pc = "done", !.res = "err_download",
                      !.failed = p[2]]

\* the file the download loop is at
CurrentFile == <<dl.model, FindConfig(dl.model)[3][dl.idx]>>

\* entry: look the model up, get_model_path, create the model directory
DBegin(model) ==
  /\ dl.pc \in {"idle", "done"}
  /\ calls.download < MaxDownloads
  /\ calls' = [calls EXCEPT !.download = @ + 1]
  /\ prevDl' = [model |-> dl.model, res |-> dl.res]
  /\ IF ~InCatalog(model)
     THEN /\ dl' = [IdleDownload EXCEPT !.pc = "done", !.model = model,
                                        !.res = "err_unknown"]
          /\ UNCHANGED disk
     ELSE /\ get_models_dir
          /\ dirs' = dirs \cup {model}
          /\ UNCHANGED files
          /\ dl' = [IdleDownload EXCEPT !.pc = "file", !.model = model,
                                        !.idx = 1]
  /\ UNCHANGED <<slot, lock, tr, lockLog, q, poisoned, ls, pf, ln>>

\* head of the loop over files_to_download: return Ok(true) after the last
\* file, skip a non-empty file, else send the request
DFile ==
  /\ dl.pc = "file"
  /\ IF dl.idx > Len(FindConfig(dl.model)[3])
     THEN dl' = [dl EXCEPT !.pc = "done", !.res = "ok"]
     ELSE IF SkipFile(files, CurrentFile)
     THEN dl' = [dl EXCEPT !.idx = @ + 1]
     ELSE dl' = [dl EXCEPT !.pc = "sent", !.started = @ + 1]
  /\ UNCHANGED <<disk, slot, lock, tr, lockLog, prevDl, q, calls, poisoned,
                 ls, pf, ln>>

\* download_file_from_huggingface: the response arrives.  A failed request,
\* an error status or a failed File::create is an error; otherwise the file
\* is created empty (truncated) and the body of n chunks follows, its
\* length announced (content_length) or not.
DResponse ==
  /\ dl.pc = "sent"
  /\ \E outcome \in {"ok", "request_error", "http_error", "create_error"},
        n \in 0..MaxChunks, known \in BOOLEAN :
       IF outcome = "ok"
       THEN /\ files' = [files EXCEPT ![CurrentFile] =
                           [size |-> 0, whole |-> n = 0]]
            /\ dl' = [dl EXCEPT !.pc = "stream", !.body = n,
                                !.downloaded = 0,
                                !.reported = -1,
                                !.total = IF known THEN n * ChunkBytes
                                          ELSE 0]
       ELSE DownloadFailed(CurrentFile)
  /\ UNCHANGED <<appData, modelsDir, dirs, slot, lock, tr, lockLog, prevDl,
                 q, calls, poisoned, ls, pf, ln>>

\* one turn of "while let Some(chunk) = stream.next().await": the chunk is
\* written and, when the length of the body is known, a download-progress
\* event is emitted; or reading or writing the chunk fails
DChunk ==
  /\ dl.pc = "stream"
  /\ dl.body > 0
  /\ \E outcome \in {"ok", "read_error", "write_error"} :
       IF outcome = "ok"
       THEN /\ files' = [files EXCEPT ![CurrentFile] =
                           [size |-> @.size + ChunkBytes,
                            whole |-> dl.body = 1]]
            /\ dl' = [dl EXCEPT !.body = @ - 1,
                                !.downloaded = @ + ChunkBytes,
                                !.events = IF dl.total > 0 THEN @ + 1
                                           ELSE @,
                                !.reported = IF dl.total > 0
                                             THEN dl.downloaded + ChunkBytes
                                             ELSE @]
       ELSE DownloadFailed(CurrentFile)
  /\ UNCHANGED <<appData, modelsDir, dirs, slot, lock, tr, lockLog, prevDl,
                 q, calls, poisoned, ls, pf, ln>>

\* the stream ends: download_file_from_huggingface returns Ok(())
DEnd ==
  /\ dl.pc = "stream"
  /\ dl.body = 0
  /\ dl' = [dl EXCEPT !.pc = "file", !.idx = @ + 1]
  /\ UNCHANGED <<disk, slot, lock, tr, lockLog, prevDl, q, calls, poisoned,
                 ls, pf, ln>>

(***************************************************************************)
(* whisper_is_model_downloaded                                             *)
(***************************************************************************)
RECURSIVE CheckWithoutMinSize(_, _, _, _)
\* the loop without the 10 MB test
CheckWithoutMinSize(fs, model, required_files, i) ==
  IF i > Len(required_files) THEN "true"
  ELSE LET file_path == <<model, required_files[i]>>
       IN  IF ~Exists(fs, file_path) THEN "false"
           ELSE IF fs[file_path].size = 0 THEN "false"
           ELSE CheckWithoutMinSize(fs, model, required_files, i + 1)

RECURSIVE CheckRequired(_, _, _, _)
\* "for file in required_files", from file number i on
CheckRequired(fs, model, required_files, i) ==
  IF i > Len(required_files) THEN "true"
  ELSE LET file_path == <<model, required_files[i]>>
       IN  IF ~Exists(fs, file_path) THEN "false"
           ELSE IF fs[file_path].size = 0 THEN "false"
           ELSE IF EndsWithBin(required_files[i])
                   /\ fs[file_path].size < MinBinBytes THEN "false"
           ELSE CheckRequired(fs, model, required_files, i + 1)

\* the command's result on a cache (ds: model directories, fs: files)
whisper_is_model_downloaded(ds, fs, model) ==
  IF model \notin ds THEN "false"
  ELSE IF ~InCatalog(model) THEN "err_unknown"
  ELSE CheckRequired(fs, model, FindConfig(model)[3], 1)

\* the command runs without suspension; get_model_path creates the cache
\* directories on the way
QCall(model) ==
  /\ calls.query < MaxQueries
  /\ calls' = [calls EXCEPT !.query = @ + 1]
  /\ get_models_dir
  /\ UNCHANGED <<dirs, files>>
  /\ q' = [model |-> model,
           res |-> whisper_is_model_downloaded(dirs, files, model)]
  /\ UNCHANGED <<slot, lock, tr, lockLog, dl, prevDl, poisoned, ls, pf, ln>>

(***************************************************************************)
(* whisper_get_downloaded_models                                           *)
(***************************************************************************)
\* the orders in which read_dir can yield the entries of a directory
Orders(ds) ==
  {order \in [1..Cardinality(ds) -> ds] :
     \A i, j \in 1..Cardinality(ds) : order[i] = order[j] => i = j}

RECURSIVE ListFrom(_, _, _, _, _)
\* "for entry in entries" from entry number i on; every entry is a
\* directory.  The ? after whisper_is_model_downloaded(..).await returns
\* its error from the whole command.
ListFrom(ds, fs, entries, i, downloaded_models) ==
  IF i > Len(entries) THEN [res |-> "ok", models |-> downloaded_models]
  ELSE LET is_downloaded == whisper_is_model_downloaded(ds, fs, entries[i])
       IN  IF is_downloaded = "err_unknown"
           THEN [res |-> "err_unknown", models |-> <<>>]
           ELSE ListFrom(ds, fs, entries, i + 1,
                         IF is_downloaded = "true"
                         THEN Append(downloaded_models, entries[i])
                         ELSE downloaded_models)

\* the command runs without suspension
LCall ==
  /\ get_models_dir
  /\ UNCHANGED <<dirs, files>>
  /\ \E entries \in Orders(dirs) :
       ls' = ListFrom(dirs, files, entries, 1, <<>>)
  /\ UNCHANGED <<slot, lock, tr, lockLog, dl, prevDl, q, calls, poisoned, pf, ln>>

(***************************************************************************)
(* start_vrc_listener and the listener thread                              *)
(***************************************************************************)
\* a read of the flag that does not write it
load(flag, value) == [previous |-> flag, now |-> flag]

\* AtomicBool::swap(value, SeqCst): the flag takes the value and the value
\* it had is returned, in one step
swap(flag, value) == [previous |-> flag, now |-> value]

\* "if LISTENER_STARTED.swap(true, ..) { return Ok(()) }"
LSwap(c) ==
  /\ ln.call[c].pc \in {"idle", "done"}
  /\ ln.count < MaxListenerCalls
  /\ LET flag == swap(ln.started, TRUE)
     IN  ln' = [ln EXCEPT
                  !.started = flag.now,
                  !.count = @ + 1,
                  !.flips = IF flag.previous THEN @ ELSE @ + 1,
                  !.call[c] = [pc |-> IF flag.previous THEN "done"
                                      ELSE "spawn",
                               flipped |-> ~flag.previous,
                               saw |-> ln.thread,
                               res |-> IF flag.previous THEN "ok"
                                       ELSE "none"]]
  /\ UNCHANGED <<disk, slot, lock, tr, lockLog, dl, prevDl, q, calls,
                 poisoned, ls, pf>>

\* thread::spawn(..) and Ok(())
LSpawn(c) ==
  /\ ln.call[c].pc = "spawn"
  /\ ln' = [ln EXCEPT !.spawned = @ + 1,
                      !.thread = "binding",
                      !.call[c].pc = "done",
                      !.call[c].res = "ok"]
  /\ UNCHANGED <<disk, slot, lock, tr, lockLog, dl, prevDl, q, calls,
                 poisoned, ls, pf>>

\* the thread: UdpSocket::bind(listen_addr) gives the socket, or the thread
\* ends after the error events
LBind ==
  /\ ln.thread = "binding"
  /\ \E ok \in BOOLEAN :
       ln' = [ln EXCEPT !.thread = IF ok THEN "listening" ELSE "exited"]
  /\ UNCHANGED <<disk, slot, lock, tr, lockLog, dl, prevDl, q, calls,
                 poisoned, ls, pf>>

\* the thread: sock.recv_from fails (a packet received changes nothing
\* here)
LRecvError ==
  /\ ln.thread = "listening"
  /\ ln' = [ln EXCEPT !.thread = "reconnecting"]
  /\ UNCHANGED <<disk, slot, lock, tr, lockLog, dl, prevDl, q, calls,
                 poisoned, ls, pf>>

\* the thread: after the delay the socket is bound again, or the loop is
\* left and the thread ends
LReconnect ==
  /\ ln.thread = "reconnecting"
  /\ \E ok \in BOOLEAN :
       ln' = [ln EXCEPT !.thread = IF ok THEN "listening" ELSE "exited"]
  /\ UNCHANGED <<disk, slot, lock, tr, lockLog, dl, prevDl, q, calls,
                 poisoned, ls, pf>>

(***************************************************************************)
(* The application is closed while a transfer is in flight and started     *)
(* again: what is in memory is lost, the cache directory stays as it is.   *)
(***************************************************************************)
Restart ==
  /\ calls.restart < MaxRestarts
  /\ dl.pc \in {"sent", "stream"}
  /\ calls' = [calls EXCEPT !.restart = @ + 1]
  /\ slot' = {}
  /\ lock' = "free"
  /\ tr' = [t \in Callers |-> IdleCall]
  /\ lockLog' = <<>>
  /\ dl' = IdleDownload
  /\ prevDl' = NoDownload
  /\ q' = NoQuery
  /\ poisoned' = FALSE
  /\ ls' = NoList
  /\ ln' = IdleListener
  /\ UNCHANGED <<disk, pf>>

(***************************************************************************)
(* Specifications.                                                         *)
(***************************************************************************)
\* A cache left by earlier runs: tiny and base downloaded in full.
InitWarm ==
  /\ appData = "dir"
  /\ modelsDir = "dir"
  /\ dirs = {"tiny", "base"}
  /\ files = [p \in Paths |->
               IF p \in { <<"tiny", "ggml-tiny.bin">>,
                          <<"base", "ggml-base.bin">> }
               THEN [size |-> 2 * ChunkBytes, whole |-> TRUE]
               ELSE Absent]
  /\ slot = {}
  /\ lock = "free"
  /\ tr = [t \in Callers |-> IdleCall]
  /\ lockLog = <<>>
  /\ dl = IdleDownload
  /\ prevDl = NoDownload
  /\ q = NoQuery
  /\ calls = [transcribe |-> 0, download |-> 0, query |-> 0, restart |-> 0]
  /\ poisoned = FALSE
  /\ ls = NoList
  /\ pf = NoCall
  /\ ln = IdleListener

\* Concurrent transcriptions over a fresh or a filled cache.
SlotAudio ==
  {NoClip, OddClip, HugeClip, ShortClip, SilentClip, NoiseClip, SpeechClip}

SlotModels == {"tiny", "base", "bogus"}

SlotRuns == {FailedRun, HelloRun}

NextSlot ==
  \/ \E t \in Callers, audio \in SlotAudio, model \in SlotModels :
       TBegin(t, audio, model, "en-US")
  \/ \E t \in Callers : TLock(t)
  \/ \E t \in Callers : TLoad(t)
  \/ \E t \in Callers, run \in SlotRuns : TInfer(t, run)

SpecSlot == (Init \/ InitWarm) /\ [][NextSlot]_vars

\* One caller after another over a filled cache, with every language
\* argument and every engine run.
InferAudio == {OddClip, SilentClip, SpeechClip}

InferModels == {"tiny", "bogus"}

NextInfer ==
  \/ \E audio \in InferAudio, model \in InferModels,
        language \in LanguageInputs :
       TBegin("c1", audio, model, language)
  \/ TLock("c1")
  \/ TLoad("c1")
  \/ \E run \in EngineRuns : TInfer("c1", run)

SpecInfer == InitWarm /\ [][NextInfer]_vars

\* The model store alone: downloads, completeness queries, restarts.
NextStore ==
  \/ \E model \in ModelInputs : DBegin(model)
  \/ DFile
  \/ DResponse
  \/ DChunk
  \/ DEnd
  \/ \E model \in ModelInputs : QCall(model)
  \/ Restart

SpecStore == Init /\ [][NextStore]_vars

\* A cache root as earlier runs and the user can have left it: any of the
\* directories tiny, base and bogus, each holding its model file empty, in
\* part or in full, or not at all.
CacheDirs == {"tiny", "base", "bogus"}

CacheFiles == {Absent, [size |-> 0, whole |-> TRUE],
               [size |-> ChunkBytes, whole |-> FALSE],
               [size |-> 2 * ChunkBytes, whole |-> TRUE]}

InitCache ==
  /\ appData = "dir"
  /\ modelsDir = "dir"
  /\ dirs \in SUBSET CacheDirs
  /\ \E held \in [CacheDirs -> CacheFiles] :
       files = [p \in Paths |->
                 IF p[1] \in dirs /\ p[2] = ModelFileName(p[1])
                 THEN held[p[1]] ELSE Absent]
  /\ slot = {}
  /\ lock = "free"
  /\ tr = [t \in Callers |-> IdleCall]
  /\ lockLog = <<>>
  /\ dl = IdleDownload
  /\ prevDl = NoDownload
  /\ q = NoQuery
  /\ calls = [transcribe |-> 0, download |-> 0, query |-> 0, restart |-> 0]
  /\ poisoned = FALSE
  /\ ls = NoList
  /\ pf = NoCall
  /\ ln = IdleListener

\* Listing and querying such a cache.
NextList ==
  \/ LCall
  \/ \E model \in CacheDirs : QCall(model)

SpecList == InitCache /\ [][NextList]_vars

\* The audio functions on their own: an input is given and the function is
\* applied to it.
InitAudio(inputs) ==
  /\ appData = "absent"
  /\ modelsDir = "absent"
  /\ dirs = {}
  /\ files = [p \in Paths |-> Absent]
  /\ slot = {}
  /\ lock = "free"
  /\ tr = [t \in Callers |-> IdleCall]
  /\ lockLog = <<>>
  /\ dl = IdleDownload
  /\ prevDl = NoDownload
  /\ q = NoQuery
  /\ calls = [transcribe |-> 0, download |-> 0, query |-> 0, restart |-> 0]
  /\ poisoned = FALSE
  /\ ls = NoList
  /\ \E input \in inputs : pf = [op |-> "input", input |-> input, out |-> <<>>]
  /\ ln = IdleListener

NormalizeWav ==
  /\ pf.op = "input"
  /\ pf' = [op |-> "process_audio_for_whisper", input |-> pf.input,
            out |-> ProcessWav(pf.input)]
  /\ UNCHANGED <<disk, slot, lock, tr, lockLog, dl, prevDl, q, calls,
                 poisoned, ls, ln>>

DetectSpeech ==
  /\ pf.op = "input"
  /\ pf' = [op |-> "detect_speech_activity", input |-> pf.input,
            out |-> DetectSpeechActivity(pf.input)]
  /\ UNCHANGED <<disk, slot, lock, tr, lockLog, dl, prevDl, q, calls,
                 poisoned, ls, ln>>

SpecGate == InitAudio(BufferInputs) /\ [][DetectSpeech]_vars

NormalizeBytes ==
  /\ pf.op = "input"
  /\ pf' = [op |-> "process_audio_for_whisper", input |-> pf.input,
            out |-> ProcessBytes(pf.input)]
  /\ UNCHANGED <<disk, slot, lock, tr, lockLog, dl, prevDl, q, calls,
                 poisoned, ls, ln>>

SpecBytes == InitAudio(ByteInputs) /\ [][NormalizeBytes]_vars

DeriveHint ==
  /\ pf.op = "input"
  /\ pf' = [op |-> "whisper_lang", input |-> pf.input,
            out |-> whisper_lang(pf.input)]
  /\ UNCHANGED <<disk, slot, lock, tr, lockLog, dl, prevDl, q, calls,
                 poisoned, ls, ln>>

SpecHint == InitAudio(TagInputs) /\ [][DeriveHint]_vars

SpecStereo == InitAudio(StereoInputs) /\ [][NormalizeWav]_vars

SpecMono == InitAudio(MonoInputs) /\ [][NormalizeWav]_vars

\* Downloads of one model racing with transcriptions that ask for it.
Next ==
  \/ \E t \in Callers : TBegin(t, SpeechClip, "tiny", "en-US")
  \/ \E t \in Callers : TLock(t)
  \/ \E t \in Callers : TLoad(t)
  \/ \E t \in Callers, run \in SlotRuns : TInfer(t, run)
  \/ DBegin("tiny")
  \/ DFile
  \/ DResponse
  \/ DChunk
  \/ DEnd
  \/ Restart

Spec == Init /\ [][Next]_vars

\* One caller downloads models of the catalog and asks for transcriptions
\* with them.
CatalogModels == {"tiny", "large"}

NextCatalog ==
  \/ \E model \in CatalogModels : DBegin(model)
  \/ DFile
  \/ DResponse
  \/ DChunk
  \/ DEnd
  \/ \E model \in CatalogModels : TBegin("c1", SpeechClip, model, "en-US")
  \/ TLock("c1")
  \/ TLoad("c1")
  \/ \E run \in SlotRuns : TInfer("c1", run)

SpecCatalog == Init /\ [][NextCatalog]_vars

\* Calls of start_vrc_listener from two callers and the listener thread.
NextListener ==
  \/ \E c \in Callers : LSwap(c)
  \/ \E c \in Callers : LSpawn(c)
  \/ LBind
  \/ LRecvError
  \/ LReconnect

SpecListener == Init /\ [][NextListener]_vars


(***************************************************************************)
(* Properties.                                                             *)
(***************************************************************************)
\* the caller is between taking the mutex and dropping it
InSection(t) == tr[t].pc \in {"load", "infer"}

\* the step is caller t entering whisper_transcribe
Enters(t) ==
  /\ calls'.transcribe = calls.transcribe + 1
  /\ tr[t].pc \in {"idle", "done"}
  /\ tr'[t].pc # "idle"
  /\ \A u \in Callers \ {t} : tr'[u] = tr[u]

\* C1: at most one call at a time is inside "check slot / load context /
\* run inference", and the call inside holds the slot lock.
C1_OneCallInLockedSection ==
  /\ Cardinality({t \in Callers : InSection(t)}) <= 1
  /\ \A t \in Callers : InSection(t) => lock = t

\* a call runs inference while the other waits for the mutex
C1_Witness ==
  \E t, u \in Callers : tr[t].pc = "infer" /\ tr[u].pc = "wait" /\ lock = t

\* C2: the slot holds at most one entry, and the identifier stored in it is
\* the identifier whose model file the stored context was loaded from.
C2_SlotTagNamesLoadedModel ==
  /\ Cardinality(slot) <= 1
  /\ \A e \in slot : e.ctx[1] = e.id

\* the slot was loaded with tiny and then reloaded with base
C2_Witness ==
  /\ \E e \in slot : e.id = "base"
  /\ Len(lockLog) >= 2
  /\ lockLog[1].model = "tiny"
  /\ lockLog[1].ok = "yes"

\* the slot's identifiers after lock holder number i
SlotAfter(i) ==
  IF i < Len(lockLog) THEN lockLog[i + 1].before ELSE {e.id : e \in slot}

LoadAttempts == Cardinality({i \in 1..Len(lockLog) : lockLog[i].attempted})

IdentifierChanges ==
  Cardinality({i \in 1..Len(lockLog) :
                 i = 1 \/ lockLog[i].model # lockLog[i - 1].model})

\* C3 as stated: a lock holder loads iff the slot is empty or holds another
\* identifier, a successful load leaves Loaded(requested identifier), the
\* number of loads equals the number of identifier changes in
\* lock-acquisition order, and two consecutive holders that request the
\* same identifier never cause a second load.
C3_Original ==
  /\ \A i \in 1..Len(lockLog) :
       /\ lockLog[i].attempted <=> lockLog[i].model \notin lockLog[i].before
       /\ lockLog[i].ok = "yes" => SlotAfter(i) = {lockLog[i].model}
  /\ LoadAttempts = IdentifierChanges
  /\ \A i \in 2..Len(lockLog) :
       lockLog[i].model = lockLog[i - 1].model => ~lockLog[i].attempted

\* C3 (amended): a lock holder loads iff the slot is empty or holds another
\* identifier, and a successful load leaves Loaded(requested identifier);
\* as long as no load has failed the number of loads equals the number of
\* identifier changes in lock-acquisition order, and a holder that requests
\* the same identifier as the holder before it loads only if that holder's
\* load failed.
C3_LoadIffSlotDiffers ==
  /\ \A i \in 1..Len(lockLog) :
       /\ lockLog[i].attempted <=> lockLog[i].model \notin lockLog[i].before
       /\ lockLog[i].ok = "yes" => SlotAfter(i) = {lockLog[i].model}
  /\ (\A i \in 1..Len(lockLog) : lockLog[i].ok # "no")
       => LoadAttempts = IdentifierChanges
  /\ \A i \in 2..Len(lockLog) :
       (lockLog[i].model = lockLog[i - 1].model /\ lockLog[i - 1].ok # "no")
         => ~lockLog[i].attempted

\* base is loaded, then a holder asking for tiny reloads, then a holder
\* asking for tiny again does not
C3_Witness ==
  /\ Len(lockLog) = 3
  /\ lockLog[1].model = "base" /\ lockLog[1].ok = "yes"
  /\ lockLog[2].model = "tiny" /\ lockLog[2].ok = "yes"
  /\ lockLog[3].model = "tiny" /\ lockLog[3].ok = "na"

\* the speech gate returns false for the normalized clip
GateRejects(audio) ==
  /\ validate_audio_data(audio) = "ok"
  /\ process_audio_for_whisper(audio) # -1
  /\ ~detect_speech_activity(process_audio_for_whisper(audio), audio)

\* C4: a call whose clip the speech gate rejects returns the empty string at
\* once, without touching the model store, the mutex or the slot.
C4_SilentClipTouchesNothing ==
  [][\A t \in Callers :
       (Enters(t) /\ GateRejects(tr'[t].audio))
         => /\ tr'[t].pc = "done"
            /\ tr'[t].res = "ok_empty"
            /\ ~tr'[t].touched
            /\ UNCHANGED <<disk, slot, lock, lockLog>>]_vars

\* a rejected clip was answered while the other caller held the mutex
C4_Witness ==
  \E t, u \in Callers :
    /\ t # u
    /\ tr[t].pc = "done" /\ tr[t].res = "ok_empty"
    /\ GateRejects(tr[t].audio)
    /\ tr[t].sawLock = u

\* the directory of model m holds every required file at a plausible size
DirComplete(ds, fs, m) ==
  /\ m \in ds
  /\ InCatalog(m)
  /\ \A i \in 1..Len(FindConfig(m)[3]) :
       LET p == <<m, FindConfig(m)[3][i]>>
       IN  /\ Exists(fs, p)
           /\ fs[p].size > 0
           /\ EndsWithBin(p[2]) => fs[p].size >= MinBinBytes

\* C5 as stated: whenever a context is put into the slot, the directory of
\* its model is complete at that moment, and the file it was read from is
\* neither truncated nor still being written by a download.
C5_Original ==
  [][(slot' # slot /\ slot' # {})
       => \A e \in slot' :
            /\ DirComplete(dirs, files, e.id)
            /\ files[e.ctx].whole
            /\ ~(dl.pc = "stream" /\ CurrentFile = e.ctx)]_vars

\* C6 as stated: a call with a speech-bearing clip and an identifier outside
\* the catalog fails with an unknown-model error and leaves the cache
\* directories and the mutex alone; no context of such an identifier is
\* ever in the slot.
C6_Original ==
  [][\A t \in Callers :
       (Enters(t) /\ Prepare(tr'[t].audio) = "speech"
                  /\ ~InCatalog(tr'[t].model))
         => /\ tr'[t].pc = "done"
            /\ tr'[t].res = "err_unknown"
            /\ UNCHANGED <<disk, slot, lock>>]_vars


\* the files the catalog requires for model m, as paths
RequiredPaths(m) ==
  {<<m, FindConfig(m)[3][i]>> : i \in 1..Len(FindConfig(m)[3])}

\* C7 as stated: a download call for the model whose previous call returned
\* success starts no download and returns success.
C7_Original ==
  (dl.pc # "idle" /\ prevDl.res = "ok" /\ prevDl.model = dl.model)
    => /\ dl.started = 0
       /\ dl.pc = "done" => dl.res = "ok"

\* C8: when the download of a file fails, the call returns the
\* download-failed error naming that file and the file is not on disk; no
\* step of a download call changes any file but the one being downloaded.
C8_FailedDownloadLeavesNoFile ==
  [][/\ (dl.pc \in {"sent", "stream"} /\ dl'.pc = "done")
          => /\ dl'.res = "err_download"
             /\ dl'.failed = CurrentFile[2]
             /\ ~Exists(files', CurrentFile)
     /\ \A p \in Paths :
          files'[p] # files[p]
            => dl.pc \in {"sent", "stream"} /\ p = CurrentFile]_vars

\* a transfer failed after part of the body had been written, while the
\* file of another model sits complete in the cache
C8_Witness ==
  /\ dl.pc = "done" /\ dl.res = "err_download"
  /\ dl.downloaded > 0
  /\ ~Exists(files, <<dl.model, dl.failed>>)
  /\ \E p \in Paths : p[1] # dl.model /\ files[p].size >= MinBinBytes

\* a file that holds only the beginning of the body it was downloaded from
Truncated(f) == f.size > 0 /\ ~f.whole

\* C9 as stated: a download call never returns success while a required
\* file of its model is still the truncated left-over of an interrupted
\* transfer.
C9_Original ==
  (dl.pc = "done" /\ dl.res = "ok")
    => \A p \in RequiredPaths(dl.model) : ~Truncated(files[p])

\* C10: the query answers false when the model directory is absent, and for
\* a catalog model with a directory it answers true exactly when every
\* required file exists, is not empty and, for a .bin file, has at least
\* 10,000,000 bytes.
C10_IsDownloadedIffComplete ==
  [][calls'.query = calls.query + 1
       => /\ q'.model \notin dirs => q'.res = "false"
          /\ (q'.model \in dirs /\ InCatalog(q'.model))
               => (q'.res = "true" <=>
                     \A p \in RequiredPaths(q'.model) :
                       /\ Exists(files, p)
                       /\ files[p].size # 0
                       /\ EndsWithBin(p[2]) => files[p].size >= MinBinBytes)
          /\ q'.res \in {"true", "false", "err_unknown"}]_vars

\* the query answered false for a model whose required file is on disk
\* with zero bytes
C10_Witness ==
  /\ q.res = "false"
  /\ q.model \in dirs
  /\ \E p \in RequiredPaths(q.model) : files[p].size = 0
  /\ dl.pc = "done" /\ dl.res = "ok" /\ dl.model = q.model

\* the query answered true
C10_WitnessTrue ==
  /\ q.res = "true"
  /\ \A p \in RequiredPaths(q.model) : files[p].size >= MinBinBytes

\* the identifiers in the Vec a listing returned
Listed == {ls.models[i] : i \in 1..Len(ls.models)}

\* C11 as stated: on every content of the cache root the listing succeeds
\* and returns exactly the directories that are complete.
C11_Original ==
  ls.res # "none"
    => /\ ls.res = "ok"
       /\ Listed = {m \in dirs : DirComplete(dirs, files, m)}

\* C12 as stated: a call returns a text only if no stage failed: the clip
\* was valid, and for a transcript the model file was found, the engine
\* created its state, ran, counted the segments and gave the text of every
\* segment.
C12_Original ==
  \A t \in Callers :
    (tr[t].pc = "done" /\ tr[t].res \in {"ok_empty", "ok_text"})
      => /\ Prepare(tr[t].audio) # "err_audio"
         /\ tr[t].res = "ok_text"
              => /\ Exists(files, tr[t].file)
                 /\ tr[t].run.state /\ tr[t].run.full /\ tr[t].run.count
                 /\ \A i \in 1..Len(tr[t].run.segs) : tr[t].run.segs[i].ok

\* C13: a call whose audio is empty, longer than 20,000,000 bytes or raw
\* PCM of odd length fails with the invalid-audio error, and the cache
\* directories, the mutex and the slot are as they were.
C13_InvalidAudioTouchesNothing ==
  [][\A t \in Callers :
       (Enters(t) /\ (\/ tr'[t].audio.nbytes = 0
                      \/ tr'[t].audio.nbytes > 20000000
                      \/ tr'[t].audio.nbytes % 2 = 1))
         => /\ tr'[t].pc = "done"
            /\ tr'[t].res = "err_audio"
            /\ ~tr'[t].touched
            /\ UNCHANGED <<disk, slot, lock, lockLog>>]_vars

\* an odd-length clip and an oversized clip were both refused and the
\* cache directory still does not exist
C13_Witness ==
  /\ tr["c1"].pc = "done" /\ tr["c1"].res = "err_audio"
  /\ tr["c1"].audio.nbytes % 2 = 1
  /\ tr["c2"].pc = "done" /\ tr["c2"].res = "err_audio"
  /\ tr["c2"].audio.nbytes > 20000000
  /\ modelsDir = "absent"

\* the frames of a stereo container that the reader accepts
Frames(w) == Len(w.data) \div 2

\* what the claim says of one stereo input and its result
StereoAsClaimed(w, out) ==
  /\ out.kind # "panic"
  /\ (WavReaderNew(w) /\ w.missing = 0)
       => /\ out.kind = "ok"
          /\ Len(out.samples) = Frames(w)
          /\ \A k \in 1..Frames(w) :
               LET sum == w.data[2 * k - 1] + w.data[2 * k]
               IN  /\ 2 * out.samples[k] \in {sum - 1, sum, sum + 1}
                   /\ (sum >= 0) => 2 * out.samples[k] <= sum
                   /\ (sum <= 0) => 2 * out.samples[k] >= sum

\* C14 as stated: for every stereo WAV the normalized buffer has one sample
\* per frame, each the average of the two channels truncated toward zero,
\* and normalization never panics.
C14_Original ==
  (pf.op = "process_audio_for_whisper" /\ pf.input.channels = 2)
    => StereoAsClaimed(pf.input, pf.out)

\* C14 (amended): for every stereo WAV at 16,000 Hz the normalized buffer
\* has one sample per frame, each the average of the two channels truncated
\* toward zero, and normalization never panics, also when the last frame is
\* incomplete.
C14_StereoDownmixAt16k ==
  (/\ pf.op = "process_audio_for_whisper"
   /\ pf.input.channels = 2
   /\ pf.input.sample_rate = 16000)
    => StereoAsClaimed(pf.input, pf.out)

\* a stereo clip of two frames at 16,000 Hz whose sums are negative and odd
\* was normalized
C14_Witness ==
  /\ pf.op = "process_audio_for_whisper"
  /\ pf.input.channels = 2 /\ pf.input.sample_rate = 16000
  /\ pf.input.data = <<-32768, 1, -3, -32768>>
  /\ pf.out.kind = "ok"
  /\ pf.out.samples = <<-16383, -16385>>

\* C15 as stated: a mono clip of N samples at rate r gives
\* floor(N / (r / 16000)) samples, sample i being input sample
\* floor(i * r / 16000), none skipped; at 16,000 Hz the samples are
\* unchanged.
C15_Original ==
  (pf.op = "process_audio_for_whisper" /\ pf.input.channels = 1)
    => LET N == Len(pf.input.data)
           r == pf.input.sample_rate
       IN  /\ pf.out.kind = "ok"
           /\ Len(pf.out.samples) = (N * 16000) \div r
           /\ \A i \in 0..(Len(pf.out.samples) - 1) :
                /\ (i * r) \div 16000 < N
                /\ pf.out.samples[i + 1] = pf.input.data[(i * r) \div 16000 + 1]
           /\ (r = 16000) => pf.out.samples = pf.input.data

\* C16: the speech gate answers false for the empty buffer, for every
\* buffer of fewer than 8,000 samples however loud, and for every buffer of
\* zeros.
C16_GateRejectsShortAndSilent ==
  (/\ pf.op = "detect_speech_activity"
   /\ \/ pf.input.len < 8000
      \/ /\ \A k \in 1..10 : pf.input.amp[k] = 0
         /\ pf.input.tail = 0)
    => pf.out = FALSE

\* a buffer of 7,999 samples that alternates between silence and full
\* loudness was rejected
C16_Witness ==
  /\ pf.op = "detect_speech_activity"
  /\ pf.input.len = 7999
  /\ \A k \in 1..10 : pf.input.amp[k] = IF k % 2 = 0 THEN 300 ELSE 0
  /\ pf.out = FALSE

\* pat occurs in str
Contains(str, pat) ==
  \E i \in 1..(Len(str) - Len(pat) + 1) :
    SubSeq(str, i, i + Len(pat) - 1) = pat

\* C17 as stated: the text a transcribe call returns has no white space at
\* either end and contains none of the seven artifacts, so that cleaning it
\* again changes nothing.
C17_Original ==
  \A t \in Callers :
    (tr[t].pc = "done" /\ tr[t].res = "ok_text")
      => /\ tr[t].text = ""
            \/ /\ SubSeq(tr[t].text, 1, 1) \notin {" ", "\n", "\t"}
               /\ SubSeq(tr[t].text, Len(tr[t].text), Len(tr[t].text))
                    \notin {" ", "\n", "\t"}
         /\ ~Contains(tr[t].text, "[BLANK_AUDIO]")
         /\ ~Contains(tr[t].text, "(BLANK_AUDIO)")
         /\ ~Contains(tr[t].text, "[MUSIC]")
         /\ ~Contains(tr[t].text, "[NOISE]")
         /\ ~Contains(tr[t].text, "(music)")
         /\ ~Contains(tr[t].text, "(inaudible)")
         /\ ~Contains(tr[t].text, "...")

\* C18: a download call for an identifier that is not one of the five
\* catalog identifiers ends at once with the unknown-model error; it sends
\* no request, emits no progress event and creates no directory.
C18_UnknownModelDownloadsNothing ==
  [][(/\ calls'.download = calls.download + 1
      /\ dl'.model \notin {"tiny", "base", "small", "medium", "large"})
       => /\ dl'.pc = "done"
          /\ dl'.res = "err_unknown"
          /\ dl'.started = 0
          /\ dl'.events = 0
          /\ UNCHANGED disk]_vars

\* the download of "bogus" was refused and the cache root still does not
\* exist
C18_Witness ==
  /\ dl.pc = "done"
  /\ dl.model = "bogus"
  /\ dl.res = "err_unknown"
  /\ modelsDir = "absent"
  /\ dirs = {}

\* C19 as stated: when loading the context fails although the model file
\* of the requested identifier is there to be opened, the call fails with
\* the load error and the slot is empty afterwards.
C19_Original ==
  [][\A t \in Callers :
       (/\ tr[t].pc = "load"
        /\ tr'[t].pc = "done"
        /\ Exists(files, tr[t].file))
         => /\ tr'[t].res = "err_load"
            /\ slot' = {}]_vars

\* C20 as stated: no transcribe call leaves the lock poisoned or held, and
\* no call is answered with the lock being unavailable.
C20_Original ==
  /\ ~poisoned
  /\ \A t \in Callers : tr[t].res # "err_poisoned"
  /\ (\A t \in Callers : tr[t].pc \in {"idle", "done"}) => lock = "free"

\* C21 as stated: bytes that begin with "RIFF" are handled as a WAV
\* container, giving its samples or an error and never the samples of a raw
\* PCM reading, and bytes that begin with anything else are decoded as raw
\* PCM.
C21_Original ==
  pf.op = "process_audio_for_whisper"
    => /\ pf.input.tag = "RIFF" => pf.out.kind \in {"wav", "err"}
       /\ pf.input.tag # "RIFF"
            => /\ pf.out.kind \in {"pcm", "err"}
               /\ pf.input.nbytes % 2 = 0
                    => (pf.out.kind = "pcm"
                        /\ 2 * pf.out.len = pf.input.nbytes)

\* C22 as stated: for a buffer of at least 8,000 samples the gate answers
\* true exactly when the rms of all samples exceeds 0.02, the peak exceeds
\* 0.1, and at least 3 of the 9 adjacent pairs of the 10 segments of
\* floor(len / 10) samples each differ in rms by more than 0.015.
C22_Original ==
  (pf.op = "detect_speech_activity" /\ pf.input.len >= 8000)
    => LET a == pf.input.amp
           w == pf.input.len \div 10
           rest == pf.input.len - 10 * w
           squares == w * (a[1] * a[1] + a[2] * a[2] + a[3] * a[3]
                           + a[4] * a[4] + a[5] * a[5] + a[6] * a[6]
                           + a[7] * a[7] + a[8] * a[8] + a[9] * a[9]
                           + a[10] * a[10])
                      + rest * pf.input.tail * pf.input.tail
           loudest == IF rest > 0 THEN {pf.input.tail} ELSE {}
           pairs == {i \in 1..9 : a[i] - a[i + 1] > 15 \/ a[i + 1] - a[i] > 15}
       IN  pf.out = TRUE
             <=> /\ squares > 400 * pf.input.len
                 /\ \E x \in {a[k] : k \in 1..10} \cup loudest : x > 100
                 /\ Cardinality(pairs) >= 3

\* C23 as stated: the hint is the first two characters of the tag when the
\* tag has at least two characters and "en" otherwise, and deriving it
\* never aborts.
C23_Original ==
  pf.op = "whisper_lang"
    => /\ pf.out # "panic"
       /\ pf.out = IF Len(pf.input) >= 2 THEN SubSeq(pf.input, 1, 2)
                   ELSE "en"

\* C24 as stated: when a file has been downloaded to its end, the last
\* progress event for it carried the number of bytes received, and every
\* event for a file carries a larger number than the one before it.
C24_Original ==
  [][/\ (dl.pc = "stream" /\ dl'.pc = "file")
          => dl.reported = dl.downloaded
     /\ (dl.pc = "stream" /\ dl'.pc = "stream" /\ dl'.events > dl.events)
          => dl'.reported > dl.reported]_vars

\* C25 as stated: after whisper_download_model(m) has returned success, and
\* with the cache as that call left it, whisper_is_model_downloaded(m)
\* returns true.
C25_Original ==
  [][(/\ calls'.query = calls.query + 1
      /\ dl.pc = "done"
      /\ dl.res = "ok"
      /\ q'.model = dl.model)
       => q'.res = "true"]_vars

\* C26 as stated: a speech-bearing transcribe call for a catalog model
\* whose directory is complete does not fail with the model file missing,
\* and the file it goes on to load is one the catalog requires.
C26_Original ==
  [][\A t \in Callers :
       (/\ Enters(t)
        /\ tr'[t].model \in {"tiny", "base", "small", "medium", "large"}
        /\ Prepare(tr'[t].audio) = "speech"
        /\ DirComplete(dirs, files, tr'[t].model))
         => /\ tr'[t].res # "err_missing"
            /\ tr'[t].file \in RequiredPaths(tr'[t].model)]_vars

\* C27: at most one listener thread is ever spawned; only the call that
\* flipped the started flag spawns it, and every other call returns
\* success without spawning, also after the thread has exited.
C27_OneListenerThread ==
  /\ ln.spawned <= 1
  /\ Cardinality({c \in Callers : ln.call[c].pc = "spawn"}) + ln.spawned <= 1
  /\ \A c \in Callers :
       /\ ln.call[c].pc = "spawn" => ln.call[c].flipped
       /\ (ln.call[c].pc = "done" /\ ~ln.call[c].flipped)
            => ln.call[c].res = "ok"
       /\ ln.call[c].saw # "none" => ~ln.call[c].flipped
  /\ ln.spawned + Cardinality({c \in Callers : ln.call[c].pc = "spawn"})
       = ln.flips

\* the thread was spawned once and has exited, and a call made after that
\* returned success without spawning
C27_Witness ==
  /\ ln.spawned = 1
  /\ ln.thread = "exited"
  /\ \E c \in Callers :
       /\ ln.call[c].pc = "done"
       /\ ln.call[c].saw = "exited"
       /\ ln.call[c].res = "ok"
       /\ ~ln.call[c].flipped

====
